---- MODULE Spec2Model ----
(***************************************************************************)
(* A model of the two command-line tools of sre-mac-setup:                 *)
(*   repo_cleanup.py               scan a tree for generated artifacts,    *)
(*                                 prompt, delete                          *)
(*   scripts/clone_bitbucket_projects.py                                   *)
(*                                 clone/update repositories, sync pass    *)
(* File names and globs are sequences of one-character strings, so that    *)
(* fnmatch and len(str(p)) are computed and not assumed.  A path is the    *)
(* sequence of its components below the scan root.  File sizes (path_size, *)
(* human_size, the freed-bytes total) are not modelled.                    *)
(***************************************************************************)
EXTENDS Integers, Sequences, FiniteSets, TLC

VARIABLES
  \* ---- repo_cleanup.py ----
  fs,          \* the tree under the scan root: [dirs, files], sets of paths
  fs0,         \* the tree as it was when the run started
  opts,        \* parsed command line: include_risky, only_cats, exclude_globs, yes
  pc,          \* position of main()
  stack,       \* directories os.walk has still to yield, next one first
  visited,     \* directories os.walk has yielded, in order
  matches,     \* scan's result: category -> sequence of matched paths
  chosen_dirs, \* scan's list of directories matched by a directory rule
  prompts,     \* the prompts issued so far
  reply,       \* what input() returned, as typed
  output,      \* the outcome lines printed
  all_items,   \* delete_all: the sorted items not yet processed
  processed,   \* delete_all: the items processed so far, in order
  removed,     \* delete_all: the matched paths removed, in order of removal
  errors,      \* delete_all: the paths whose removal raised
  exit_code,   \* sys.exit's argument, or -1 while running
  \* ---- scripts/clone_bitbucket_projects.py ----
  args,        \* parsed command line: dry_run, sync_default, report
  disk,        \* per listed repository: its clone under the destination directory,
               \* and its remote
  dest_exists, \* whether the destination directory exists
  phase,       \* position of main()
  idx,         \* index of the repository the current loop is at
  summaries,   \* the summaries built so far, in order
  issued,      \* per repository: the git commands run on it
  failed,      \* per repository: the git commands that exited non-zero
  printed,     \* per repository: the commands a dry run printed
  sync_exit,   \* the process's exit code, or -1 while running
  env,         \* os.environ: per variable "unset", "" or "set"
  auth,        \* what get_auth_context returned
  requests     \* the HTTP requests issued, each with the credentials it carried

cleanupVars == <<fs, fs0, opts, pc, stack, visited, matches, chosen_dirs, prompts,
                 reply, output, all_items, processed, removed, errors, exit_code>>

authVars == <<env, auth, requests>>

syncVars == <<args, disk, dest_exists, phase, idx, summaries, issued, failed, printed,
              sync_exit, authVars>>

vars == <<cleanupVars, syncVars>>

-----------------------------------------------------------------------------
(* Bounds of the model                                                     *)

\* Deepest path of a generated tree, in components below the root.
MaxDepth == 2
\* Most entries (files and directories) of a generated tree.
MaxEntries == 3
\* Most commits the local default branch has that its remote has not.
MaxAhead == 2
\* Most commits the remote default branch has that the local branch has not.
MaxBehind == 2
\* Most pages the repository listing has.
MaxPages == 2

-----------------------------------------------------------------------------
(* Names and globs, as character sequences                                 *)

nm_build == <<"b","u","i","l","d">>
nm_devcontainer == <<".","d","e","v","c","o","n","t","a","i","n","e","r">>
nm_src == <<"s","r","c">>
nm_git == <<".","g","i","t">>
nm_a_pyc == <<"a",".","p","y","c">>
nm_app_py == <<"a","p","p",".","p","y">>
nm_node_modules == <<"n","o","d","e","_","m","o","d","u","l","e","s">>
nm_terraform == <<".","t","e","r","r","a","f","o","r","m">>
nm_out_bin == <<"o","u","t",".","b","i","n">>
nm_project == <<"p","r","o","j","e","c","t">>

\* The names a generated tree gives its directories and its files.
DirNames == {nm_build, nm_devcontainer, nm_src, nm_git}
FileNames == {nm_a_pyc, nm_app_py, nm_build}

\* The order in which a directory lists its entries (os.scandir's order).
NameOrder ==
  <<nm_git, nm_src, nm_devcontainer, nm_build, nm_app_py, nm_a_pyc, nm_node_modules,
    nm_terraform, nm_out_bin, nm_project>>

\* str(root): the scan root find_git_root returned.
RootStr == <<"/","w">>

\* The --exclude-glob lists tried.
ExcludeGlobChoices ==
  { <<>>,
    << <<"b","u","i","l","d">> >>,
    << <<"*","/","s","r","c","/","*">> >>,
    << <<"*",".","p","y","?">>, <<"/","w","/",".","d","e","v","*">> >> }

\* The --only lists tried.
OnlyCatsChoices == { <<>>, <<"Dev env">>, <<"Node/JS", "Python">> }

-----------------------------------------------------------------------------
(* repo_cleanup.py: the rule table and the pure helpers                    *)

RULES ==
  <<
    [cat |-> "Terraform", risk |-> "safe", typ |-> "dir", pat |-> <<".","t","e","r","r","a","f","o","r","m">>],
    [cat |-> "Terraform", risk |-> "safe", typ |-> "dir", pat |-> <<".","t","e","r","r","a","g","r","u","n","t","-","c","a","c","h","e">>],
    [cat |-> "Terraform", risk |-> "safe", typ |-> "file", pat |-> <<"*",".","t","f","p","l","a","n">>],
    [cat |-> "Terraform", risk |-> "safe", typ |-> "file", pat |-> <<"c","r","a","s","h",".","l","o","g">>],
    [cat |-> "Terraform", risk |-> "safe", typ |-> "file", pat |-> <<"c","r","a","s","h",".","*",".","l","o","g">>],
    [cat |-> "Node/JS", risk |-> "safe", typ |-> "dir", pat |-> <<"n","o","d","e","_","m","o","d","u","l","e","s">>],
    [cat |-> "Node/JS", risk |-> "safe", typ |-> "dir", pat |-> <<"d","i","s","t">>],
    [cat |-> "Node/JS", risk |-> "safe", typ |-> "dir", pat |-> <<"b","u","i","l","d">>],
    [cat |-> "Node/JS", risk |-> "safe", typ |-> "dir", pat |-> <<".","n","e","x","t">>],
    [cat |-> "Node/JS", risk |-> "safe", typ |-> "dir", pat |-> <<".","n","u","x","t">>],
    [cat |-> "Node/JS", risk |-> "safe", typ |-> "dir", pat |-> <<".","t","u","r","b","o">>],
    [cat |-> "Node/JS", risk |-> "safe", typ |-> "dir", pat |-> <<".","p","a","r","c","e","l","-","c","a","c","h","e">>],
    [cat |-> "Node/JS", risk |-> "safe", typ |-> "dir", pat |-> <<"c","o","v","e","r","a","g","e">>],
    [cat |-> "Python", risk |-> "safe", typ |-> "dir", pat |-> <<"_","_","p","y","c","a","c","h","e","_","_">>],
    [cat |-> "Python", risk |-> "safe", typ |-> "dir", pat |-> <<".","p","y","t","e","s","t","_","c","a","c","h","e">>],
    [cat |-> "Python", risk |-> "safe", typ |-> "dir", pat |-> <<".","m","y","p","y","_","c","a","c","h","e">>],
    [cat |-> "Python", risk |-> "safe", typ |-> "dir", pat |-> <<".","r","u","f","f","_","c","a","c","h","e">>],
    [cat |-> "Python", risk |-> "safe", typ |-> "dir", pat |-> <<".","i","p","y","n","b","_","c","h","e","c","k","p","o","i","n","t","s">>],
    [cat |-> "Python", risk |-> "safe", typ |-> "dir", pat |-> <<".","t","o","x">>],
    [cat |-> "Python", risk |-> "safe", typ |-> "file", pat |-> <<"*",".","p","y","c">>],
    [cat |-> "Python", risk |-> "safe", typ |-> "file", pat |-> <<"*",".","p","y","o">>],
    [cat |-> "Build", risk |-> "safe", typ |-> "dir", pat |-> <<"t","a","r","g","e","t">>],
    [cat |-> "Build", risk |-> "safe", typ |-> "dir", pat |-> <<".","g","r","a","d","l","e">>],
    [cat |-> "Misc", risk |-> "safe", typ |-> "file", pat |-> <<".","D","S","_","S","t","o","r","e">>],
    [cat |-> "Misc", risk |-> "safe", typ |-> "file", pat |-> <<"T","h","u","m","b","s",".","d","b">>],
    [cat |-> "Misc", risk |-> "safe", typ |-> "file", pat |-> <<"*",".","s","w","p">>],
    [cat |-> "Misc", risk |-> "safe", typ |-> "file", pat |-> <<"*",".","s","w","o">>],
    [cat |-> "Dev env", risk |-> "risky", typ |-> "dir", pat |-> <<"v","e","n","v">>],
    [cat |-> "Dev env", risk |-> "risky", typ |-> "dir", pat |-> <<".","v","e","n","v">>],
    [cat |-> "Dev env", risk |-> "risky", typ |-> "dir", pat |-> <<"e","n","v">>],
    [cat |-> "Dev env", risk |-> "risky", typ |-> "dir", pat |-> <<".","i","d","e","a">>],
    [cat |-> "Dev env", risk |-> "risky", typ |-> "dir", pat |-> <<".","v","s","c","o","d","e">>],
    [cat |-> "Dev env", risk |-> "risky", typ |-> "dir", pat |-> <<".","d","e","v","c","o","n","t","a","i","n","e","r">>]
  >>


\* fnmatch.fnmatch(name, pat) on POSIX (normcase is the identity): "*" matches
\* any run of characters, "/" included, "?" any one character.
RECURSIVE fnmatch(_, _)
fnmatch(name, pat) ==
  IF pat = <<>> THEN name = <<>>
  ELSE IF Head(pat) = "*"
       THEN fnmatch(name, Tail(pat)) \/ (name # <<>> /\ fnmatch(Tail(name), pat))
  ELSE IF name = <<>> THEN FALSE
  ELSE (Head(pat) = "?" \/ Head(pat) = Head(name)) /\ fnmatch(Tail(name), Tail(pat))

SeqToSet(s) == {s[i] : i \in 1..Len(s)}

\* SelectedRule without the risk-tier test.
SelectedRule_IgnoringRisk(r, include_risky, only_cats) ==
  ~(only_cats # <<>> /\ r.cat \notin SeqToSet(only_cats))

SelectedRule(r, include_risky, only_cats) ==
  /\ ~(only_cats # <<>> /\ r.cat \notin SeqToSet(only_cats))
  /\ ~(r.risk = "risky" /\ ~include_risky)

\* build_rule_index: (dir_rules, file_rules), each in table order.
build_rule_index(include_risky, only_cats) ==
  LET selected == SelectSeq(RULES, LAMBDA r : SelectedRule(r, include_risky, only_cats))
  IN  [dir_rules  |-> SelectSeq(selected, LAMBDA r : r.typ = "dir"),
       file_rules |-> SelectSeq(selected, LAMBDA r : r.typ = "file")]

\* str(path) of the path root / c1 / ... / cn.
RECURSIVE StrPath(_)
StrPath(p) ==
  IF p = <<>> THEN RootStr
  ELSE StrPath(SubSeq(p, 1, Len(p) - 1)) \o <<"/">> \o p[Len(p)]

\* path.name
BaseName(p) == p[Len(p)]

\* path.parents, as far as the scan root's children (nothing above is ever chosen).
Parents(p) == {SubSeq(p, 1, k) : k \in 1..(Len(p) - 1)}

\* should_exclude_by_glob testing the base name only.
should_exclude_by_glob_NameOnly(p, exclude_globs) ==
  IF exclude_globs = <<>> THEN FALSE
  ELSE \E i \in 1..Len(exclude_globs) : fnmatch(BaseName(p), exclude_globs[i])

should_exclude_by_glob(p, exclude_globs) ==
  IF exclude_globs = <<>> THEN FALSE
  ELSE \E i \in 1..Len(exclude_globs) :
         \/ fnmatch(BaseName(p), exclude_globs[i])
         \/ fnmatch(StrPath(p), exclude_globs[i])

\* The index of the first rule of `rules` whose pattern matches `name`, 0 if none
\* (the inner for loop with its break).
FirstMatch(name, rules) ==
  LET hits == {i \in 1..Len(rules) : fnmatch(name, rules[i].pat)}
  IN  IF hits = {} THEN 0 ELSE CHOOSE i \in hits : \A j \in hits : i <= j

\* scan.add_item on (matches, chosen_dirs): the new matches.
add_item(m, chosen, globs, cat, p) ==
  IF should_exclude_by_glob(p, globs) THEN m
  ELSE LET m1 == IF cat \in DOMAIN m THEN m ELSE m @@ (cat :> <<>>)
       IN  IF \E parent \in Parents(p) : parent \in SeqToSet(chosen)
           THEN m1
           ELSE [m1 EXCEPT ![cat] = Append(@, p)]

-----------------------------------------------------------------------------
(* The trees a run may find                                                *)

EmptyTree == [dirs |-> {}, files |-> {}]

Entries(t) == t.dirs \cup t.files

\* Every tree got from t by creating one more entry.
Extend(t, dnames, fnames) ==
  LET spots == {p \in t.dirs \cup {<<>>} : Len(p) < MaxDepth}
  IN  {[t EXCEPT !.dirs = @ \cup {Append(p, n)}] :
          <<p, n>> \in {x \in spots \X dnames : Append(x[1], x[2]) \notin Entries(t)}}
      \cup
      {[t EXCEPT !.files = @ \cup {Append(p, n)}] :
          <<p, n>> \in {x \in spots \X fnames : Append(x[1], x[2]) \notin Entries(t)}}

\* Every tree of at most n entries, no path deeper than MaxDepth.
RECURSIVE Trees(_, _, _)
Trees(n, dnames, fnames) ==
  IF n = 0 THEN {EmptyTree}
  ELSE LET prev == Trees(n - 1, dnames, fnames)
       IN  prev \cup UNION {Extend(t, dnames, fnames) : t \in prev}

\* The entries of t at or below p.
Subtree(t, p) ==
  {q \in Entries(t) : Len(q) >= Len(p) /\ SubSeq(q, 1, Len(p)) = p}

\* The names of the entries of `kind` directly in directory dp, in listing order.
Listing(entries, dp) ==
  SelectSeq(NameOrder, LAMBDA n : Append(dp, n) \in entries)

-----------------------------------------------------------------------------
(* repo_cleanup.py: scan, one action per directory os.walk yields          *)

\* MatchDirs that adds a matched directory but neither records it as chosen nor
\* prunes it.
RECURSIVE MatchDirs_NoBookkeeping(_, _, _, _, _)
MatchDirs_NoBookkeeping(ds, dp, rules, globs, acc) ==
  IF ds = <<>> THEN acc
  ELSE LET d == Head(ds)
           i == FirstMatch(d, rules)
       IN  MatchDirs_NoBookkeeping(Tail(ds), dp, rules, globs,
             IF i = 0 THEN acc
             ELSE [acc EXCEPT !.m = add_item(acc.m, acc.chosen, globs, rules[i].cat,
                                             Append(dp, d))])

\* MatchDirs that leaves the loop over dirnames at the first directory a rule matches.
RECURSIVE MatchDirs_FirstHitOnly(_, _, _, _, _)
MatchDirs_FirstHitOnly(ds, dp, rules, globs, acc) ==
  IF ds = <<>> THEN acc
  ELSE LET d == Head(ds)
           i == FirstMatch(d, rules)
           full == Append(dp, d)
       IN  IF i = 0 THEN MatchDirs_FirstHitOnly(Tail(ds), dp, rules, globs, acc)
           ELSE [m |-> add_item(acc.m, acc.chosen, globs, rules[i].cat, full),
                 chosen |-> Append(acc.chosen, full),
                 to_prune |-> acc.to_prune \cup {d}]

\* The loop over dirnames: each directory a rule matches is added, chosen and pruned.
RECURSIVE MatchDirs(_, _, _, _, _)
MatchDirs(ds, dp, rules, globs, acc) ==
  IF ds = <<>> THEN acc
  ELSE LET d == Head(ds)
           i == FirstMatch(d, rules)
           full == Append(dp, d)
       IN  MatchDirs(Tail(ds), dp, rules, globs,
             IF i = 0 THEN acc
             ELSE [m |-> add_item(acc.m, acc.chosen, globs, rules[i].cat, full),
                   chosen |-> Append(acc.chosen, full),
                   to_prune |-> acc.to_prune \cup {d}])

\* The loop over filenames.
RECURSIVE MatchFiles(_, _, _, _, _, _)
MatchFiles(fns, dp, rules, globs, chosen, m) ==
  IF fns = <<>> THEN m
  ELSE LET f == Head(fns)
           i == FirstMatch(f, rules)
       IN  MatchFiles(Tail(fns), dp, rules, globs, chosen,
             IF i = 0 THEN m
             ELSE add_item(m, chosen, globs, rules[i].cat, Append(dp, f)))

\* KeptDirs that prunes nothing.
KeptDirs_NoPrune(dirnames, to_prune) == dirnames

\* The directories the walk goes on into, after the body changed dirnames in place.
KeptDirs(dirnames, to_prune) == SelectSeq(dirnames, LAMBDA d : d \notin to_prune)

\* One iteration of "for dp, dirnames, filenames in os.walk(root)".
WalkStep ==
  /\ pc = "walk"
  /\ stack # <<>>
  /\ LET dp == Head(stack)
         index == build_rule_index(opts.include_risky, opts.only_cats)
         dirnames == SelectSeq(Listing(fs.dirs, dp), LAMBDA d : d # nm_git)
         filenames == Listing(fs.files, dp)
         afterDirs == MatchDirs(dirnames, dp, index.dir_rules, opts.exclude_globs,
                                [m |-> matches, chosen |-> chosen_dirs, to_prune |-> {}])
         kept == KeptDirs(dirnames, afterDirs.to_prune)
     IN  /\ matches' = MatchFiles(filenames, dp, index.file_rules, opts.exclude_globs,
                                  afterDirs.chosen, afterDirs.m)
         /\ chosen_dirs' = afterDirs.chosen
         /\ stack' = [k \in 1..Len(kept) |-> Append(dp, kept[k])] \o Tail(stack)
         /\ visited' = Append(visited, dp)
  /\ UNCHANGED syncVars
  /\ UNCHANGED <<fs, fs0, opts, pc, prompts, reply, output, all_items, processed,
                 removed, errors, exit_code>>

\* The "Compute sizes" loop: each category's items without repeats, first kept.
RECURSIVE Uniq(_)
Uniq(s) ==
  IF s = <<>> THEN <<>>
  ELSE LET init == Uniq(SubSeq(s, 1, Len(s) - 1))
           last == s[Len(s)]
       IN  IF last \in SeqToSet(init) THEN init ELSE Append(init, last)

\* Every item of every category.
AllItems(m) == UNION {SeqToSet(m[c]) : c \in DOMAIN m}

RECURSIVE SumLen(_, _)
SumLen(m, cats) ==
  IF cats = {} THEN 0
  ELSE LET c == CHOOSE x \in cats : TRUE IN Len(m[c]) + SumLen(m, cats \ {c})

\* summarize's total_items.
total_items(m) == SumLen(m, DOMAIN m)

\* The end of scan, summarize, the printed report and main's early exit.
MainReport ==
  /\ pc = "walk"
  /\ stack = <<>>
  /\ LET uniq == [c \in DOMAIN matches |-> Uniq(matches[c])]
     IN  /\ matches' = uniq
         /\ IF total_items(uniq) = 0
            THEN pc' = "exit" /\ exit_code' = 0
            ELSE pc' = "prompt" /\ exit_code' = exit_code
  /\ UNCHANGED syncVars
  /\ UNCHANGED <<fs, fs0, opts, stack, visited, chosen_dirs, prompts, reply, output,
                 all_items, processed, removed, errors>>

-----------------------------------------------------------------------------
(* repo_cleanup.py: the prompt                                             *)

\* What the user may type at the prompt.
Replies ==
  { <<"y">>, <<" ","Y","E","S"," ">>, <<"y","e","p">>, <<"n">>, <<>> }

IsSpace(c) == c \in {" ", "\t"}

RECURSIVE LStrip(_)
LStrip(s) == IF s # <<>> /\ IsSpace(Head(s)) THEN LStrip(Tail(s)) ELSE s

RECURSIVE RStrip(_)
RStrip(s) ==
  IF s # <<>> /\ IsSpace(s[Len(s)]) THEN RStrip(SubSeq(s, 1, Len(s) - 1)) ELSE s

\* str.strip()
Strip(s) == RStrip(LStrip(s))

LowerChar(c) ==
  CASE c = "Y" -> "y" [] c = "E" -> "e" [] c = "S" -> "s" [] c = "P" -> "p"
    [] c = "N" -> "n" [] OTHER -> c

\* str.lower(), on the letters the replies use
Lower(s) == [i \in 1..Len(s) |-> LowerChar(s[i])]

\* Affirmative taking every reply but "n" for a yes.
Affirmative_UnlessNo(r) == r # <<"n">>

\* reply in ("y", "yes")
Affirmative(r) == r \in { <<"y">>, <<"y","e","s">> }

\* input(...) returns: the prompt is printed and the reply read and normalised.
Prompt ==
  /\ pc = "prompt"
  /\ \E typed \in Replies :
       /\ reply' = Lower(Strip(typed))
       /\ prompts' = Append(prompts, [text |-> IF opts.yes THEN "Delete ALL of the above"
                                               ELSE "Proceed to delete ALL found items now",
                                       typed |-> typed])
  /\ pc' = "replied"
  /\ UNCHANGED syncVars
  /\ UNCHANGED <<fs, fs0, opts, stack, visited, matches, chosen_dirs, output, all_items,
                 processed, removed, errors, exit_code>>

\* input(...) raises EOFError (standard input closed): nothing catches it.
PromptEOF ==
  /\ pc = "prompt"
  /\ prompts' = Append(prompts, [text |-> IF opts.yes THEN "Delete ALL of the above"
                                          ELSE "Proceed to delete ALL found items now",
                                  typed |-> <<"E","O","F">>])
  /\ output' = Append(output, "Traceback")
  /\ pc' = "exit"
  /\ exit_code' = 1
  /\ UNCHANGED syncVars
  /\ UNCHANGED <<fs, fs0, opts, stack, visited, matches, chosen_dirs, reply, all_items,
                 processed, removed, errors>>

\* "if reply in (y, yes)": delete_all starts (items flattened into a set), or abort.
Decide ==
  /\ pc = "replied"
  /\ IF Affirmative(reply)
     THEN /\ all_items' = AllItems(matches)
          /\ pc' = "delete"
          /\ UNCHANGED <<output, exit_code>>
     ELSE /\ output' = Append(output, "Aborted. Nothing was deleted.")
          /\ pc' = "exit"
          /\ exit_code' = 0
          /\ UNCHANGED all_items
  /\ UNCHANGED syncVars
  /\ UNCHANGED <<fs, fs0, opts, stack, visited, matches, chosen_dirs, prompts, reply,
                 processed, removed, errors>>

-----------------------------------------------------------------------------
(* repo_cleanup.py: delete_all, one action per item                        *)

\* SortKey for an ascending sort (reverse=True left out).
SortKey_Ascending(p) == 0 - Len(StrPath(p))

\* The sort key: len(str(p)).
SortKey(p) == Len(StrPath(p))

\* The items sorted(set(all_items), key=len(str(p)), reverse=True) may yield next:
\* a set has no order of its own, so paths of equal length come in any order.
NextItems(items) == {p \in items : \A q \in items : SortKey(q) <= SortKey(p)}

\* What a failing shutil.rmtree(p) may have removed before it raised: entries
\* strictly below p, each with everything below it.
PartialRemovals(t, p) ==
  {S \in SUBSET (Subtree(t, p) \ {p}) : \A q \in S : Subtree(t, q) \subseteq S}

Without(t, S) == [dirs |-> t.dirs \ S, files |-> t.files \ S]

\* RemainingAfter for a loop that the first failure ends.
RemainingAfter_StopOnError(items, p, ok) == IF ok THEN items \ {p} ELSE {}

\* What is left of the loop after p: the try/except inside the loop body lets the
\* loop go on whether or not the removal raised.
RemainingAfter(items, p, ok) == items \ {p}

\* One iteration of "for p in all_items".
DeleteStep ==
  /\ pc = "delete"
  /\ all_items # {}
  /\ \E p \in NextItems(all_items), ok \in BOOLEAN :
       /\ all_items' = RemainingAfter(all_items, p, ok)
       /\ processed' = Append(processed, p)
       /\ IF p \in fs.dirs
          THEN IF ok
               THEN /\ fs' = Without(fs, Subtree(fs, p))
                    /\ removed' = Append(removed, p)
                    /\ errors' = errors
               ELSE /\ \E S \in PartialRemovals(fs, p) : fs' = Without(fs, S)
                    /\ removed' = removed
                    /\ errors' = Append(errors, p)
          ELSE IF p \in fs.files
          THEN IF ok
               THEN /\ fs' = Without(fs, {p})
                    /\ removed' = Append(removed, p)
                    /\ errors' = errors
               ELSE /\ fs' = fs
                    /\ removed' = removed
                    /\ errors' = Append(errors, p)
          ELSE /\ ok
               /\ UNCHANGED <<fs, removed, errors>>
  /\ UNCHANGED syncVars
  /\ UNCHANGED <<fs0, opts, pc, stack, visited, matches, chosen_dirs, prompts, reply,
                 output, exit_code>>

\* delete_all returns; main prints the outcome and exits 0, or 1 if errors.
DeleteFinish ==
  /\ pc = "delete"
  /\ all_items = {}
  /\ output' = Append(output, "Deleted. Space freed")
  /\ exit_code' = IF errors = <<>> THEN 0 ELSE 1
  /\ pc' = "exit"
  /\ UNCHANGED syncVars
  /\ UNCHANGED <<fs, fs0, opts, stack, visited, matches, chosen_dirs, prompts, reply,
                 all_items, processed, removed, errors>>

-----------------------------------------------------------------------------
(* repo_cleanup.py: a run of main()                                        *)

\* The filter settings tried.
Options ==
  [include_risky : BOOLEAN, only_cats : OnlyCatsChoices,
   exclude_globs : ExcludeGlobChoices, yes : BOOLEAN]

\* clone_bitbucket_projects.py is not running.
SyncIdle ==
  /\ args = [dry_run |-> FALSE, sync_default |-> FALSE, report |-> FALSE]
  /\ disk = <<>>
  /\ dest_exists = FALSE
  /\ phase = "idle"
  /\ idx = 0
  /\ summaries = <<>>
  /\ issued = <<>>
  /\ failed = <<>>
  /\ printed = <<>>
  /\ sync_exit = -1
  /\ env = <<>>
  /\ auth = [basic |-> <<>>, headers |-> <<>>, exit |-> -1]
  /\ requests = <<>>

\* main() up to the call of scan, on any tree and with any options.
InitScan ==
  /\ SyncIdle
  /\ fs \in Trees(MaxEntries, DirNames, FileNames)
  /\ fs0 = fs
  /\ opts \in Options
  /\ pc = "walk"
  /\ stack = << <<>> >>
  /\ visited = <<>>
  /\ matches = <<>>
  /\ chosen_dirs = <<>>
  /\ prompts = <<>>
  /\ reply = <<>>
  /\ output = <<>>
  /\ all_items = {}
  /\ processed = <<>>
  /\ removed = <<>>
  /\ errors = <<>>
  /\ exit_code = -1

\* A run with no --only: what the prompt and the deletion do does not turn on the
\* category filter.
InitCleanup ==
  /\ InitScan
  /\ opts.only_cats = <<>>
  /\ Len(opts.exclude_globs) <= 1

\* scan as main calls it, up to the printed report.
NextScan ==
  \/ WalkStep
  \/ MainReport

SpecScan == InitScan /\ [][NextScan]_vars

\* The tree with node_modules/, .terraform/, src/app.py and build/out.bin.
ScenarioTree ==
  [dirs  |-> {<<nm_node_modules>>, <<nm_terraform>>, <<nm_src>>, <<nm_build>>},
   files |-> {<<nm_src, nm_app_py>>, <<nm_build, nm_out_bin>>}]

\* The tree t, held in a directory `name` of the scan root.
Below(name, t) ==
  [dirs  |-> {<<name>>} \cup {<<name>> \o p : p \in t.dirs},
   files |-> {<<name>> \o p : p \in t.files}]

\* The scenario tree as the scan root itself, or as its directory project/.
ScenarioTrees == {ScenarioTree, Below(nm_project, ScenarioTree)}

\* main() up to the call of scan, on the scenario tree with any options.
InitScenario ==
  /\ SyncIdle
  /\ fs \in ScenarioTrees
  /\ fs0 = fs
  /\ opts \in Options
  /\ pc = "walk"
  /\ stack = << <<>> >>
  /\ visited = <<>>
  /\ matches = <<>>
  /\ chosen_dirs = <<>>
  /\ prompts = <<>>
  /\ reply = <<>>
  /\ output = <<>>
  /\ all_items = {}
  /\ processed = <<>>
  /\ removed = <<>>
  /\ errors = <<>>
  /\ exit_code = -1

SpecScenario == InitScenario /\ [][NextScan]_vars

\* The whole of main().
NextCleanup ==
  \/ WalkStep
  \/ MainReport
  \/ Prompt
  \/ PromptEOF
  \/ Decide
  \/ DeleteStep
  \/ DeleteFinish

SpecCleanup == InitCleanup /\ [][NextCleanup]_vars

-----------------------------------------------------------------------------
(* repo_cleanup.py: delete_all on any match set                            *)
(* main's "if reply in (y, yes)" branch, entered with matches that need    *)
(* not come from a scan of the present tree: nested paths, a path in two   *)
(* categories, paths that are gone by now.                                 *)

DeleteDirNames == {nm_src, nm_devcontainer}
DeleteFileNames == {nm_a_pyc}

RECURSIVE SetToSeq(_)
SetToSeq(S) ==
  IF S = {} THEN <<>>
  ELSE LET x == CHOOSE y \in S : TRUE IN <<x>> \o SetToSeq(S \ {x})

InitDelete ==
  /\ SyncIdle
  /\ \E t \in Trees(MaxEntries, DeleteDirNames, DeleteFileNames) :
       /\ \E gone \in {{}} \cup {Subtree(t, p) : p \in Entries(t)} : fs = Without(t, gone)
       /\ \E items \in SUBSET Entries(t), again \in SUBSET Entries(t) :
            /\ items # {}
            /\ again \subseteq items
            /\ Cardinality(again) <= 1
            /\ matches = IF again = {} THEN ("Build" :> SetToSeq(items))
                         ELSE ("Build" :> SetToSeq(items)) @@ ("Misc" :> SetToSeq(again))
  /\ fs0 = fs
  /\ opts \in [include_risky : {TRUE}, only_cats : {<<>>}, exclude_globs : {<<>>},
               yes : BOOLEAN]
  /\ pc = "replied"
  /\ \E typed \in {<<"y">>, <<" ","Y","E","S"," ">>} :
       /\ reply = Lower(Strip(typed))
       /\ prompts = << [text |-> IF opts.yes THEN "Delete ALL of the above"
                                 ELSE "Proceed to delete ALL found items now",
                        typed |-> typed] >>
  /\ stack = <<>>
  /\ visited = <<>>
  /\ chosen_dirs = <<>>
  /\ output = <<>>
  /\ all_items = {}
  /\ processed = <<>>
  /\ removed = <<>>
  /\ errors = <<>>
  /\ exit_code = -1

NextDelete ==
  \/ Decide
  \/ DeleteStep
  \/ DeleteFinish

SpecDelete == InitDelete /\ [][NextDelete]_vars

-----------------------------------------------------------------------------
(* scripts/clone_bitbucket_projects.py                                     *)
(* The default branch of a remote is a line of commits, numbered from the  *)
(* commit the local branch forked from it at the start (0).  A clone holds *)
(*   base   the commit of that line the local default branch contains,     *)
(*   ahead  the commits of the local default branch that are not on it,    *)
(*   track  the commit origin/<default> points at,                         *)
(* and the remote's own tip is `remote`.  The working-tree inspections of  *)
(* the report (is_dirty, list_ahead_branches) change nothing and are not   *)
(* modelled.                                                               *)

\* repo["slug"] of the repositories list_repos returned, in list order.
Slugs == <<"alpha", "beta">>

NRepos == Len(Slugs)

\* A repository that has no clone under the destination directory.
Absent(has_url, has_default) ==
  [has_url |-> has_url, has_default |-> has_default, exists |-> FALSE,
   url_current |-> FALSE, local_exists |-> FALSE, track_exists |-> FALSE,
   cur_is_default |-> FALSE, base |-> 0, ahead |-> 0, track |-> 0, remote |-> 0]

\* What a run may find for one repository.
RepoStates ==
  {Absent(TRUE, TRUE), Absent(TRUE, FALSE), Absent(FALSE, TRUE)}
  \cup
  {[has_url |-> TRUE, has_default |-> TRUE, exists |-> TRUE, url_current |-> FALSE,
    local_exists |-> TRUE, track_exists |-> TRUE, cur_is_default |-> c,
    base |-> 0, ahead |-> a, track |-> tr, remote |-> rm] :
      c \in BOOLEAN, a \in 0..MaxAhead, tr \in 0..MaxBehind, rm \in 0..MaxBehind}
  \cup
  {[has_url |-> v[1], has_default |-> v[2], exists |-> TRUE, url_current |-> TRUE,
    local_exists |-> v[3], track_exists |-> v[4], cur_is_default |-> v[3],
    base |-> 0, ahead |-> IF v[3] THEN 1 ELSE 0, track |-> 0, remote |-> 1] :
      v \in {<<FALSE, TRUE, TRUE, TRUE>>, <<TRUE, FALSE, TRUE, TRUE>>,
             <<TRUE, TRUE, FALSE, TRUE>>, <<TRUE, TRUE, TRUE, FALSE>>,
             <<TRUE, TRUE, FALSE, FALSE>>}}

\* A state of the remote and its tracking ref that git can produce.
WellFormed(d) == d.track <= d.remote /\ d.base <= d.track

\* subprocess.run(["git", "clone", ...]) succeeded: a fresh clone.
Cloned(d) ==
  [d EXCEPT !.exists = TRUE, !.url_current = TRUE, !.local_exists = d.has_default,
            !.track_exists = d.has_default, !.cur_is_default = d.has_default,
            !.base = d.remote, !.ahead = 0, !.track = d.remote]

\* What one call of a step did to one repository.
Effect(d, cmds, bad, lines) ==
  [disk |-> d, issued |-> cmds, failed |-> bad, printed |-> lines]

\* git_clone_or_update(repo, dest_dir, dry_run, do_fetch=False): the effect, with
\* raised = TRUE when git clone exited non-zero (check=True raises).
git_clone_or_update(d, dry_run, ok) ==
  IF ~d.has_url
  THEN [eff |-> Effect(d, {}, {}, {}), mkdir |-> FALSE, raised |-> FALSE]
  ELSE IF d.exists
  THEN IF dry_run
       THEN [eff |-> Effect(d, {}, {}, {"set-url", "remote-update"}),
             mkdir |-> FALSE, raised |-> FALSE]
       ELSE [eff |-> Effect(IF ok THEN [d EXCEPT !.url_current = TRUE] ELSE d,
                            {"set-url"}, IF ok THEN {} ELSE {"set-url"}, {}),
             mkdir |-> FALSE, raised |-> FALSE]
  ELSE IF dry_run
       THEN [eff |-> Effect(d, {}, {}, {"clone"}), mkdir |-> TRUE, raised |-> FALSE]
       ELSE [eff |-> Effect(IF ok THEN Cloned(d) ELSE d,
                            {"clone"}, IF ok THEN {} ELSE {"clone"}, {}),
             mkdir |-> TRUE, raised |-> ~ok]

\* update_remote_branch: git fetch origin refs/heads/b:refs/remotes/origin/b.
update_remote_branch(d, ok) ==
  IF ok THEN [d EXCEPT !.track = d.remote, !.track_exists = TRUE] ELSE d

\* branch_exists(repo_dir, default)
branch_exists(d) == d.local_exists

\* ahead_behind(repo_dir, default, origin/default): git rev-list --left-right --count
\* fails when either ref is missing, and a failure reads as (0, 0).
ahead_behind(d) ==
  IF d.local_exists /\ d.track_exists THEN <<d.ahead, d.track - d.base>> ELSE <<0, 0>>

\* git pull --ff-only origin b, and git fetch origin b:b: both move the local branch
\* to the remote's tip, and only if that is a fast-forward.  (The code runs them
\* only on a branch it found behind and not ahead; on a diverged branch both refuse.)
FastForwards(d, ok) == ok /\ d.local_exists /\ d.ahead = 0

FastForwarded(d) ==
  [d EXCEPT !.base = d.remote, !.track = d.remote, !.track_exists = TRUE]

\* The three returns before the update: "skipped", "up-to-date", or "" to go on.
FFDecisionDiverged(a, b) ==
  IF a > 0 /\ b = 0 THEN "skipped"
  ELSE IF a = 0 /\ b = 0 THEN "up-to-date"
  ELSE ""

FFDecision(a, b) ==
  IF a > 0 /\ b = 0 THEN "skipped"
  ELSE IF a > 0 /\ b > 0 THEN "skipped"
  ELSE IF a = 0 /\ b = 0 THEN "up-to-date"
  ELSE ""

\* The return after the update ran, ignoring its return code.
FFResultUnchecked(ok) == [action |-> "pulled", error |-> "none"]

\* The return after the update ran: (action, error).
FFResult(ok) ==
  IF ok THEN [action |-> "pulled", error |-> "none"]
  ELSE [action |-> "skipped", error |-> "git stderr"]

\* fast_forward_default(repo_dir, default_branch, dry_run).
fast_forward_default(d, dry_run, okFetch, okUpdate) ==
  LET d1 == update_remote_branch(d, okFetch)
      fetched == Effect(d1, {"fetch-track"}, IF okFetch THEN {} ELSE {"fetch-track"}, {})
      ab == ahead_behind(d1)
      early == FFDecision(ab[1], ab[2])
      cmd == IF d1.cur_is_default THEN "pull" ELSE "fetch-local"
      done == FastForwards(d1, okUpdate)
  IN  IF early # ""
      THEN [eff |-> fetched, action |-> early, error |-> "none", saw |-> ab]
      ELSE IF dry_run
      THEN [eff |-> [fetched EXCEPT !.printed = {cmd}],
            action |-> "pulled", error |-> "none", saw |-> ab]
      ELSE [eff |-> Effect(IF done THEN FastForwarded(d1) ELSE d1,
                           {"fetch-track", cmd},
                           fetched.failed \cup (IF done THEN {} ELSE {cmd}), {}),
            action |-> FFResult(done).action, error |-> FFResult(done).error,
            saw |-> ab]

NoSummary(slug, d) ==
  [slug |-> slug, default_branch |-> FALSE, ahead_main |-> 0, behind_main |-> 0,
   action |-> "none", error |-> "none", before |-> d, saw |-> <<0, 0>>]

\* summarize_repo(repo, dest_dir, perform_pull, dry_run).
summarize_repo(slug, d, perform_pull, dry_run, okFetch1, okFetch2, okUpdate) ==
  IF ~d.exists
  THEN [eff |-> Effect(d, {}, {}, {}),
        summary |-> [NoSummary(slug, d) EXCEPT !.action = "to-clone"]]
  ELSE IF ~d.has_default
  THEN [eff |-> Effect(d, {}, {}, {}),
        summary |-> [NoSummary(slug, d) EXCEPT !.action = "no-default-branch"]]
  ELSE LET d1 == IF perform_pull THEN update_remote_branch(d, okFetch1) ELSE d
           bad1 == IF perform_pull /\ ~okFetch1 THEN {"fetch-track"} ELSE {}
           ab == IF branch_exists(d1) THEN ahead_behind(d1) ELSE <<0, 0>>
           s == [NoSummary(slug, d) EXCEPT !.default_branch = TRUE,
                                           !.ahead_main = ab[1], !.behind_main = ab[2]]
       IN  IF perform_pull
           THEN LET ff == fast_forward_default(d1, dry_run, okFetch2, okUpdate)
                IN  [eff |-> [ff.eff EXCEPT !.failed = @ \cup bad1],
                     summary |-> [s EXCEPT !.action = ff.action, !.error = ff.error,
                                           !.saw = ff.saw]]
           ELSE [eff |-> Effect(d1, {}, {}, {}),
                 summary |-> [s EXCEPT !.action = "checked"]]

Apply(i, eff) ==
  /\ disk' = [disk EXCEPT ![i] = eff.disk]
  /\ issued' = [issued EXCEPT ![i] = @ \cup eff.issued]
  /\ failed' = [failed EXCEPT ![i] = @ \cup eff.failed]
  /\ printed' = [printed EXCEPT ![i] = @ \cup eff.printed]

\* One iteration of "for r in repos: git_clone_or_update(...)"; the exception a
\* failed git clone raises is caught nowhere and ends the process.
CloneOrUpdate ==
  /\ phase = "clone"
  /\ idx <= NRepos
  /\ \E ok \in BOOLEAN :
       LET r == git_clone_or_update(disk[idx], args.dry_run, ok)
       IN  /\ Apply(idx, r.eff)
           /\ dest_exists' = (dest_exists \/ r.mkdir)
           /\ IF r.raised
              THEN phase' = "crashed" /\ sync_exit' = 1 /\ idx' = idx
              ELSE phase' = phase /\ sync_exit' = sync_exit /\ idx' = idx + 1
  /\ UNCHANGED <<args, summaries>>
  /\ UNCHANGED <<cleanupVars, authVars>>

\* The clone loop is over: "if args.report or args.sync_default".
StartReport ==
  /\ phase = "clone"
  /\ idx > NRepos
  /\ IF args.report \/ args.sync_default
     THEN phase' = "report" /\ idx' = 1 /\ sync_exit' = sync_exit
     ELSE phase' = "done" /\ idx' = idx /\ sync_exit' = 0
  /\ UNCHANGED <<args, disk, dest_exists, summaries, issued, failed, printed>>
  /\ UNCHANGED <<cleanupVars, authVars>>

\* One iteration of "for r in repos: summaries.append(summarize_repo(...))".
Summarize ==
  /\ phase = "report"
  /\ idx <= NRepos
  /\ \E okFetch1, okFetch2, okUpdate \in BOOLEAN :
       LET r == summarize_repo(Slugs[idx], disk[idx], args.sync_default, args.dry_run,
                               okFetch1, okFetch2, okUpdate)
       IN  /\ Apply(idx, r.eff)
           /\ summaries' = Append(summaries, r.summary)
  /\ idx' = idx + 1
  /\ UNCHANGED <<args, dest_exists, phase, sync_exit>>
  /\ UNCHANGED <<cleanupVars, authVars>>

\* The report is printed and main returns.
PrintReport ==
  /\ phase = "report"
  /\ idx > NRepos
  /\ phase' = "done"
  /\ sync_exit' = 0
  /\ UNCHANGED <<args, disk, dest_exists, idx, summaries, issued, failed, printed>>
  /\ UNCHANGED <<cleanupVars, authVars>>

\* repo_cleanup.py is not running.
CleanupIdle ==
  /\ fs = EmptyTree
  /\ fs0 = EmptyTree
  /\ opts = [include_risky |-> FALSE, only_cats |-> <<>>, exclude_globs |-> <<>>,
             yes |-> FALSE]
  /\ pc = "idle"
  /\ stack = <<>>
  /\ visited = <<>>
  /\ matches = <<>>
  /\ chosen_dirs = <<>>
  /\ prompts = <<>>
  /\ reply = <<>>
  /\ output = <<>>
  /\ all_items = {}
  /\ processed = <<>>
  /\ removed = <<>>
  /\ errors = <<>>
  /\ exit_code = -1

-----------------------------------------------------------------------------
(* scripts/clone_bitbucket_projects.py: the environment, the credentials   *)
(* and the repository listing (main up to the clone loop; the command line *)
(* is taken to have parsed)                                                *)

EnvNames ==
  {"BB_WORKSPACE", "BITBUCKET_USERNAME", "BITBUCKET_API_TOKEN", "BITBUCKET_ACCESS_TOKEN",
   "BB_USERNAME", "BB_APP_PASSWORD"}

\* os.environ.get(name): None ("unset"), the empty string, or the variable's value;
\* each variable that is set holds a value of its own, written as its name.
EnvGet(e, name) == IF e[name] = "set" THEN name ELSE e[name]

\* Python's truth of what os.environ.get returned.
Truthy(v) == v \notin {"unset", ""}

\* get_auth_context has not returned yet.
Unresolved == [basic |-> <<>>, headers |-> <<>>, exit |-> -1]

\* No scheme is complete: sys.exit(2).
NoAuth == [basic |-> <<>>, headers |-> <<>>, exit |-> 2]

\* get_auth_context as its docstring orders it: the bearer token first.
get_auth_context_BearerFirst(e) ==
  LET api_user == EnvGet(e, "BITBUCKET_USERNAME")
      api_token == EnvGet(e, "BITBUCKET_API_TOKEN")
      token == EnvGet(e, "BITBUCKET_ACCESS_TOKEN")
      username == EnvGet(e, "BB_USERNAME")
      app_password == EnvGet(e, "BB_APP_PASSWORD")
  IN  IF Truthy(token)
      THEN [basic |-> <<>>, headers |-> <<"Authorization", "Bearer", token>>, exit |-> 0]
      ELSE IF Truthy(api_user) /\ Truthy(api_token)
      THEN [basic |-> <<api_user, api_token>>, headers |-> <<>>, exit |-> 0]
      ELSE IF Truthy(username) /\ Truthy(app_password)
      THEN [basic |-> <<username, app_password>>, headers |-> <<>>, exit |-> 0]
      ELSE NoAuth

\* get_auth_context(): (basic auth pair or None, headers), or sys.exit(2); None and
\* the empty dict are written <<>>.
get_auth_context(e) ==
  LET api_user == EnvGet(e, "BITBUCKET_USERNAME")
      api_token == EnvGet(e, "BITBUCKET_API_TOKEN")
      token == EnvGet(e, "BITBUCKET_ACCESS_TOKEN")
      username == EnvGet(e, "BB_USERNAME")
      app_password == EnvGet(e, "BB_APP_PASSWORD")
  IN  IF Truthy(api_user) /\ Truthy(api_token)
      THEN [basic |-> <<api_user, api_token>>, headers |-> <<>>, exit |-> 0]
      ELSE IF Truthy(token)
      THEN [basic |-> <<>>, headers |-> <<"Authorization", "Bearer", token>>, exit |-> 0]
      ELSE IF Truthy(username) /\ Truthy(app_password)
      THEN [basic |-> <<username, app_password>>, headers |-> <<>>, exit |-> 0]
      ELSE NoAuth

\* workspace = get_env("BB_WORKSPACE"): exit 2 if it is unset or empty.
GetWorkspace ==
  /\ phase = "start"
  /\ IF Truthy(EnvGet(env, "BB_WORKSPACE"))
     THEN phase' = "auth" /\ sync_exit' = sync_exit
     ELSE phase' = "exit" /\ sync_exit' = 2
  /\ UNCHANGED <<args, disk, dest_exists, idx, summaries, issued, failed, printed, authVars>>
  /\ UNCHANGED cleanupVars

\* auth, headers = get_auth_context()
GetAuthContext ==
  /\ phase = "auth"
  /\ auth' = get_auth_context(env)
  /\ IF auth'.exit = 2
     THEN phase' = "exit" /\ sync_exit' = 2
     ELSE phase' = "list" /\ sync_exit' = sync_exit
  /\ UNCHANGED <<args, disk, dest_exists, idx, summaries, issued, failed, printed, env,
                 requests>>
  /\ UNCHANGED cleanupVars

\* One requests.get of iter_paginated, as list_repos drives it: a status that
\* raise_for_status rejects ends main with exit code 1, a page without a "next"
\* link ends the listing.
ListPage ==
  /\ phase = "list"
  /\ \E status \in {200, 401, 403, 500}, more \in BOOLEAN :
       /\ requests' = Append(requests, [auth |-> auth, status |-> status])
       /\ IF status # 200
          THEN phase' = "exit" /\ sync_exit' = 1
          ELSE IF more /\ Len(requests) + 1 < MaxPages
          THEN phase' = phase /\ sync_exit' = sync_exit
          ELSE phase' = "listed" /\ sync_exit' = sync_exit
  /\ UNCHANGED <<args, disk, dest_exists, idx, summaries, issued, failed, printed, env,
                 auth>>
  /\ UNCHANGED cleanupVars

\* main() after the command line parsed, in any environment.
InitAuth ==
  /\ CleanupIdle
  /\ args \in [dry_run : BOOLEAN, sync_default : BOOLEAN, report : BOOLEAN]
  /\ disk = <<>>
  /\ dest_exists = FALSE
  /\ phase = "start"
  /\ idx = 0
  /\ summaries = <<>>
  /\ issued = <<>>
  /\ failed = <<>>
  /\ printed = <<>>
  /\ sync_exit = -1
  /\ env \in [EnvNames -> {"unset", "", "set"}]
  /\ auth = Unresolved
  /\ requests = <<>>

NextAuth ==
  \/ GetWorkspace
  \/ GetAuthContext
  \/ ListPage

SpecAuth == InitAuth /\ [][NextAuth]_vars

\* main() after list_repos returned, before the clone loop.
InitSync ==
  /\ CleanupIdle
  /\ args \in [dry_run : BOOLEAN, sync_default : BOOLEAN, report : BOOLEAN]
  /\ disk \in [1..NRepos -> {d \in RepoStates : WellFormed(d)}]
  /\ dest_exists \in BOOLEAN
  /\ \A i \in 1..NRepos : disk[i].exists => dest_exists
  /\ phase = "clone"
  /\ idx = 1
  /\ summaries = <<>>
  /\ issued = [i \in 1..NRepos |-> {}]
  /\ failed = [i \in 1..NRepos |-> {}]
  /\ printed = [i \in 1..NRepos |-> {}]
  /\ sync_exit = -1
  /\ env = [v \in EnvNames |-> "set"]
  /\ auth = get_auth_context(env)
  /\ requests = << [auth |-> auth, status |-> 200] >>

NextSync ==
  \/ CloneOrUpdate
  \/ StartReport
  \/ Summarize
  \/ PrintReport

SpecSync == InitSync /\ [][NextSync]_vars

-----------------------------------------------------------------------------
(* Properties of scan (checked under SpecScan)                             *)

ScanDone == pc # "walk"

ProperPrefix(a, b) == Len(a) < Len(b) /\ SubSeq(b, 1, Len(a)) = a

\* How many times p is listed in the result, over all categories.
Occurrences(p) ==
  Cardinality({x \in {<<c, i>> : c \in DOMAIN matches, i \in 1..MaxEntries + 1} :
                 x[2] <= Len(matches[x[1]]) /\ matches[x[1]][x[2]] = p})

DirRuleHit(d) ==
  FirstMatch(BaseName(d), build_rule_index(opts.include_risky, opts.only_cats).dir_rules) # 0

FileRuleHit(f) ==
  FirstMatch(BaseName(f), build_rule_index(opts.include_risky, opts.only_cats).file_rules) # 0

\* The walk comes to p's parent: no directory above p is .git or matches a
\* selected directory rule.
Reached(p) == \A a \in Parents(p) : BaseName(a) # nm_git /\ ~DirRuleHit(a)

\* p's base name or full path string matches one of the exclude globs.
Excluded(p) ==
  \E i \in 1..Len(opts.exclude_globs) :
     fnmatch(BaseName(p), opts.exclude_globs[i]) \/ fnmatch(StrPath(p), opts.exclude_globs[i])

\* C2 as stated: every directory whose base name matches a selected directory rule
\* is listed exactly once, is never walked into and has nothing beneath it listed.
C2_EveryMatchingDirListedOnce ==
  ScanDone =>
    \A d \in fs0.dirs :
      DirRuleHit(d) =>
        /\ Occurrences(d) = 1
        /\ d \notin SeqToSet(visited)
        /\ \A q \in AllItems(matches) : ~ProperPrefix(d, q)

\* C2 amended: a directory whose base name matches a selected directory rule is never
\* walked into and nothing beneath it is listed; it is listed exactly once when the
\* walk reaches it and no exclude glob matches it, and not at all otherwise.
C2_MatchingDirPrunedListedOnceIfReachedAndKept ==
  ScanDone =>
    \A d \in fs0.dirs :
      DirRuleHit(d) =>
        /\ d \notin SeqToSet(visited)
        /\ \A q \in AllItems(matches) : ~ProperPrefix(d, q)
        /\ Occurrences(d) = IF Reached(d) /\ ~Excluded(d) THEN 1 ELSE 0

\* A scan has listed a matching directory that has contents.
C2_Witness ==
  /\ ScanDone
  /\ \E d \in fs0.dirs :
       DirRuleHit(d) /\ Occurrences(d) = 1 /\ Subtree(fs0, d) # {d}

\* C3: in the result no path is listed twice and no listed path lies beneath
\* another listed path, within a category or across categories.
C3_NoNestedNoRepeated ==
  /\ \A p \in AllItems(matches) : Occurrences(p) = 1
  /\ \A p, q \in AllItems(matches) : ~ProperPrefix(p, q)

\* A scan has listed a directory that holds an entry a selected rule matches.
C3_Witness ==
  /\ ScanDone
  /\ \E d \in fs0.dirs \cap AllItems(matches) :
       \E q \in Subtree(fs0, d) \ {d} :
          IF q \in fs0.dirs THEN DirRuleHit(q) ELSE FileRuleHit(q)

KindOf(p) == IF p \in fs0.dirs THEN "dir" ELSE "file"

RulesHitting(p) ==
  {i \in 1..Len(RULES) : RULES[i].typ = KindOf(p) /\ fnmatch(BaseName(p), RULES[i].pat)}

\* Every rule of the table that matches p is tagged risky.
OnlyRisky(p) == RulesHitting(p) # {} /\ \A i \in RulesHitting(p) : RULES[i].risk = "risky"

\* C4: without include_risky no path that only risky rules match is ever listed,
\* whatever only_cats and exclude_globs are.
C4_NoRiskyUnlessIncluded ==
  ~opts.include_risky => \A p \in AllItems(matches) : ~OnlyRisky(p)

\* A scan without include_risky, with --only naming the risky category, has walked
\* a tree that has .devcontainer at its top.
C4_Witness ==
  /\ ScanDone
  /\ ~opts.include_risky
  /\ opts.only_cats = <<"Dev env">>
  /\ <<nm_devcontainer>> \in fs0.dirs

\* C10: no listed path has a base name or a full path string that an exclude glob
\* matches.
C10_ExcludedNeverListed ==
  \A p \in AllItems(matches) : ~Excluded(p)

\* A scan has come to an entry that a selected rule matches and that an exclude
\* glob matches by its full path only.
C10_Witness ==
  /\ ScanDone
  /\ \E p \in Entries(fs0) :
       /\ Reached(p)
       /\ IF p \in fs0.dirs THEN DirRuleHit(p) ELSE FileRuleHit(p)
       /\ Excluded(p)
       /\ \A i \in 1..Len(opts.exclude_globs) : ~fnmatch(BaseName(p), opts.exclude_globs[i])

-----------------------------------------------------------------------------
(* Properties of main's prompt (checked under SpecCleanup)                 *)

Yes == { <<"y">>, <<"y","e","s">> }

-----------------------------------------------------------------------------
(* Properties of delete_all (checked under SpecDelete)                     *)

\* C6 as stated: items are processed by descending depth.
C6_ByDescendingDepth ==
  \A i, j \in 1..Len(processed) : i < j => Len(processed[i]) >= Len(processed[j])

\* C6 amended: items are processed by descending length of the path string, so a
\* path is never processed after a path it lies beneath.
C6_ByDescendingStringLength ==
  \A i, j \in 1..Len(processed) :
     i < j => /\ Len(StrPath(processed[i])) >= Len(StrPath(processed[j]))
              /\ ~ProperPrefix(processed[i], processed[j])

\* Two items, one beneath the other, have been processed.
C6_Witness ==
  \E i, j \in 1..Len(processed) : i < j /\ ProperPrefix(processed[j], processed[i])

\* C7: when delete_all has returned, every matched path has been processed once, one
\* that was there has either been removed or has one error entry, one that was
\* already gone has neither, and the exit code is 1 exactly if there are errors.
C7_FailuresDoNotStopTheRest ==
  pc = "exit" =>
    /\ SeqToSet(processed) = AllItems(matches)
    /\ Len(processed) = Cardinality(AllItems(matches))
    /\ Cardinality(SeqToSet(errors)) = Len(errors)
    /\ \A p \in AllItems(matches) :
         IF p \in Entries(fs0)
         THEN (p \in SeqToSet(removed)) # (p \in SeqToSet(errors))
         ELSE p \notin SeqToSet(removed) /\ p \notin SeqToSet(errors)
    /\ \A p \in SeqToSet(removed) : p \notin Entries(fs)
    /\ exit_code = IF errors = <<>> THEN 0 ELSE 1

\* delete_all has returned after a failure followed by a removal, with a matched
\* path that was already gone.
C7_Witness ==
  /\ pc = "exit"
  /\ \E i, j \in 1..Len(processed) :
       i < j /\ processed[i] \in SeqToSet(errors) /\ processed[j] \in SeqToSet(removed)
  /\ \E p \in AllItems(matches) : p \notin Entries(fs0)

-----------------------------------------------------------------------------
(* Properties of the sync pass (checked under SpecSync)                    *)

\* The command fast_forward_default updates the local default branch with.
UpdateCmd(s) == IF s.before.cur_is_default THEN "pull" ELSE "fetch-local"

LocalRefUnchanged(i) ==
  /\ disk[i].local_exists = summaries[i].before.local_exists
  /\ disk[i].base = summaries[i].before.base
  /\ disk[i].ahead = summaries[i].before.ahead

\* C1: in the sync pass a local default branch that is ahead of its remote-tracking
\* ref (behind or not) gets the action skipped with no error, and no command that
\* moves the local branch is run on that repository.
C1_AheadIsSkippedUntouched ==
  args.sync_default =>
    \A i \in 1..Len(summaries) :
      LET s == summaries[i] IN
      (s.default_branch /\ s.before.local_exists /\ disk[i].track_exists
         /\ s.before.ahead > 0) =>
        /\ s.action = "skipped"
        /\ s.error = "none"
        /\ LocalRefUnchanged(i)
        /\ issued[i] \cap {"pull", "fetch-local"} = {}

\* The sync pass has summarised a repository it found diverged.
C1_Witness ==
  /\ args.sync_default
  /\ \E i \in 1..Len(summaries) :
       /\ summaries[i].saw[1] > 0
       /\ summaries[i].saw[2] > 0
       /\ summaries[i].action = "skipped"

\* What C9 says of a repository found behind only, when the update is run.
UpdateRunAndReported(i) ==
  LET s == summaries[i]
      cmd == UpdateCmd(s)
  IN  /\ issued[i] \cap {"pull", "fetch-local"} = {cmd}
      /\ s.action = "pulled" <=> cmd \notin failed[i]
      /\ s.action = "pulled" =>
            /\ s.error = "none"
            /\ disk[i].ahead = 0
            /\ disk[i].base = disk[i].remote
            /\ disk[i].base > s.before.base
      /\ cmd \in failed[i] =>
            /\ s.action = "skipped"
            /\ s.error = "git stderr"
            /\ LocalRefUnchanged(i)

BehindOnly(i) ==
  /\ summaries[i].default_branch
  /\ summaries[i].saw[1] = 0
  /\ summaries[i].saw[2] > 0

\* C9 as stated: for a repository found behind only the update is run; the action is
\* pulled exactly when it succeeded, and then the local branch is at the remote's tip;
\* a failed update gives skipped with the error text and leaves the local branch.
C9_PulledExactlyWhenUpdated ==
  args.sync_default =>
    \A i \in 1..Len(summaries) : BehindOnly(i) => UpdateRunAndReported(i)

\* C9 amended: the same without --dry-run; with --dry-run the update is printed and
\* not run, the action is pulled with no error and the local branch is left.
C9_PulledExactlyWhenUpdatedUnlessDryRun ==
  args.sync_default =>
    \A i \in 1..Len(summaries) :
      BehindOnly(i) =>
        IF args.dry_run
        THEN /\ issued[i] \cap {"pull", "fetch-local"} = {}
             /\ printed[i] \cap {"pull", "fetch-local"} = {UpdateCmd(summaries[i])}
             /\ summaries[i].action = "pulled"
             /\ summaries[i].error = "none"
             /\ LocalRefUnchanged(i)
        ELSE UpdateRunAndReported(i)

\* A sync pass without --dry-run has fast-forwarded a default branch that is not
\* the checked-out branch.
C9_Witness ==
  /\ args.sync_default
  /\ ~args.dry_run
  /\ \E i \in 1..Len(summaries) :
       /\ BehindOnly(i)
       /\ ~summaries[i].before.cur_is_default
       /\ summaries[i].action = "pulled"
       /\ disk[i].base > summaries[i].before.base

\* C8: when the run has ended, every listed repository that has a clone URL went
\* through the clone/update step, every listed repository has its summary, in list
\* order, if a report or a sync was asked for, and every git command that exited
\* non-zero on a repository shows as an error on its summary.
C8_GitFailureIsNotFatal ==
  phase \in {"done", "crashed"} =>
    /\ \A i \in 1..NRepos :
         (disk[i].has_url /\ ~args.dry_run) => issued[i] \cap {"clone", "set-url"} # {}
    /\ (args.report \/ args.sync_default) =>
         /\ Len(summaries) = NRepos
         /\ \A i \in 1..NRepos : summaries[i].slug = Slugs[i]
         /\ \A i \in 1..NRepos : failed[i] # {} => summaries[i].error # "none"

-----------------------------------------------------------------------------
(* Properties of the credentials                                           *)

IsSet(name) == env[name] = "set"

ValueOf(name) == name

ApiTokenPair == IsSet("BITBUCKET_USERNAME") /\ IsSet("BITBUCKET_API_TOKEN")

BearerToken == IsSet("BITBUCKET_ACCESS_TOKEN")

LegacyPair == IsSet("BB_USERNAME") /\ IsSet("BB_APP_PASSWORD")

\* The credentials the first complete scheme gives, empty if no scheme is complete.
FirstCompleteScheme ==
  IF ApiTokenPair
  THEN [basic |-> <<ValueOf("BITBUCKET_USERNAME"), ValueOf("BITBUCKET_API_TOKEN")>>,
        headers |-> <<>>]
  ELSE IF BearerToken
  THEN [basic |-> <<>>,
        headers |-> <<"Authorization", "Bearer", ValueOf("BITBUCKET_ACCESS_TOKEN")>>]
  ELSE IF LegacyPair
  THEN [basic |-> <<ValueOf("BB_USERNAME"), ValueOf("BB_APP_PASSWORD")>>, headers |-> <<>>]
  ELSE [basic |-> <<>>, headers |-> <<>>]

NoSchemeComplete == ~ApiTokenPair /\ ~BearerToken /\ ~LegacyPair

AuthResolved == auth # Unresolved

C11_WitnessExit ==
  /\ IsSet("BB_WORKSPACE")
  /\ NoSchemeComplete
  /\ env["BB_USERNAME"] = "set"
  /\ env["BB_APP_PASSWORD"] = ""
  /\ sync_exit = 2
  /\ requests = <<>>

-----------------------------------------------------------------------------
(* Properties of the scenario scan                                         *)

DefaultSettings ==
  /\ ~opts.include_risky
  /\ opts.only_cats = <<>>
  /\ opts.exclude_globs = <<>>

\* Where the scenario tree sits: <<>> when it is the scan root, <<project>> otherwise.
ScenarioBase == IF fs0 = ScenarioTree THEN <<>> ELSE <<nm_project>>

ScenarioScanned == fs0 \in ScenarioTrees /\ DefaultSettings /\ ScanDone

ExactlyNodeAndTerraform == DOMAIN matches = {"Node/JS", "Terraform"}

AppPyUnmatched == ScenarioBase \o <<nm_src, nm_app_py>> \notin AllItems(matches)

BuildUnderNode == ScenarioBase \o <<nm_build>> \in SeqToSet(matches["Node/JS"])

\* C12: the default scan of the scenario tree yields exactly the categories Node/JS
\* and Terraform; Terraform holds .terraform alone, Node/JS holds the two
\* directories node_modules and build, and src/app.py is in no category.
C12_ScenarioNodeHoldsTwo ==
  ScenarioScanned =>
    /\ ExactlyNodeAndTerraform
    /\ Len(matches["Terraform"]) = 1
    /\ SeqToSet(matches["Terraform"]) = {ScenarioBase \o <<nm_terraform>>}
    /\ Len(matches["Node/JS"]) = 2
    /\ SeqToSet(matches["Node/JS"]) =
         {ScenarioBase \o <<nm_node_modules>>, ScenarioBase \o <<nm_build>>}
    /\ AppPyUnmatched

\* C12 as stated: exactly the categories Node/JS and Terraform, each with one item,
\* src/app.py unmatched and build/ under Node/JS.
C12_ScenarioEachCategoryOneItem ==
  ScenarioScanned =>
    /\ ExactlyNodeAndTerraform
    /\ \A c \in DOMAIN matches : Len(matches[c]) = 1
    /\ AppPyUnmatched
    /\ BuildUnderNode

\* The default scan of the scenario tree is over and build/ is listed under Node/JS.
C12_Witness ==
  /\ ScenarioScanned
  /\ pc = "prompt"
  /\ "Node/JS" \in DOMAIN matches
  /\ BuildUnderNode

-----------------------------------------------------------------------------
(* Properties of --dry-run and of the reported action                      *)

\* A step left every clone, the destination directory and the set of git commands
\* that were run as they were.
NothingOnDiskChanged ==
  /\ disk' = disk
  /\ dest_exists' = dest_exists
  /\ issued' = issued

\* C13: with --dry-run no step of the clone/update loop or of the sync pass
\* changes anything on disk: no directory is created, nothing is cloned, no remote
\* URL is changed, no ref is fetched, no branch is moved, no git command is run.
C13_DryRunChangesNothingOnDisk ==
  [][args.dry_run => NothingOnDiskChanged]_vars

\* The local default branch of repository i exists and is level with its
\* remote-tracking ref, and the fetch of that ref did not fail.
TrulyLevel(i) ==
  /\ disk[i].local_exists
  /\ disk[i].track_exists
  /\ disk[i].ahead = 0
  /\ disk[i].track = disk[i].base
  /\ "fetch-track" \notin failed[i]

\* C14: a repository of the sync pass is reported up-to-date only when its local
\* default branch exists and is zero ahead of and zero behind its remote-tracking
\* ref, and never after a missing local branch, a missing remote-tracking ref or a
\* failed fetch.
C14_UpToDateOnlyWhenTrulyLevel ==
  \A i \in 1..Len(summaries) :
    (args.sync_default /\ summaries[i].action = "up-to-date") => TrulyLevel(i)

====
